---- MODULE Spec2Model ----
(***************************************************************************)
(* Model of monitor.py: a polling loop that loads URL -> content snapshots *)
(* from an sqlite table, fetches every URL on a thread pool, e-mails on a  *)
(* change, and rewrites the table with the results.                        *)
(*                                                                         *)
(* A page text is a Python str.  It is represented here as                 *)
(*     [pad |-> n, tail |-> t]                                             *)
(* standing for the string made of n copies of one filler character        *)
(* followed by the characters of t (none of which is the filler), so that  *)
(* strings longer than the 500-character e-mail excerpt stay small.  The   *)
(* representation is canonical: two records are equal exactly when the     *)
(* strings are.  Python's None is the record with pad = -1.                *)
(***************************************************************************)
EXTENDS Integers, Sequences, FiniteSets, TLC

\* ------------------------------------------------------------------ bounds
\* Characters (other than the filler) a page text may end with: 1..MaxChar.
MaxChar == 2

\* ------------------------------------------------------- program constants
\* ThreadPoolExecutor(max_workers=10)
MAX_WORKERS == 10
\* old_content[:500], new_content[:500]
EXCERPT_LEN == 500

\* The URLs that can be in the store, pre-seeded out of band: one more than
\* the pool has workers.  A URL is named by its place in the order in which
\* the SELECT of load_websites returns the rows; the dict built from them,
\* its items() and the pool's queue keep that order.
URLS == 1..(MAX_WORKERS + 1)

\* The URLs of the stores whose contents are left arbitrary.
FewUrls == {1, 2}

\* ------------------------------------------------------------ page texts
None == [pad |-> -1, tail |-> <<>>]
Empty == [pad |-> 0, tail |-> <<>>]
Text(n, t) == [pad |-> n, tail |-> t]

\* What a successful get_page_content can return: "" (no region found, or a
\* region without text), short texts, and texts longer than the excerpt.
FetchContents ==
    {Empty} \cup {Text(n, <<k>>) : n \in {0, EXCERPT_LEN}, k \in 1..MaxChar}

\* What the content column can hold: NULL or any text.
StoredContents == {None} \cup FetchContents

StrLen(c) == c.pad + Len(c.tail)

Min(a, b) == IF a <= b THEN a ELSE b

\* c[:k]
Slice(c, k) ==
    IF c.pad >= k
    THEN Text(k, <<>>)
    ELSE Text(c.pad, SubSeq(c.tail, 1, Min(Len(c.tail), k - c.pad)))

\* Python truthiness of a content value: None and "" are falsy.
Truthy(c) == c # None /\ StrLen(c) > 0

\* ------------------------------------------------------------------ state
VARIABLES
    pc,          \* position of the main thread in monitor_websites
    tableExists, \* the websites table has been created
    rows,        \* committed rows of the table: set of [url, content]
    conn,        \* save_websites' connection: "closed", "open", "txn"
    work,        \* rows as seen inside the open transaction
    pending,     \* items executemany has still to insert
    websites,    \* the dict returned by load_websites in this cycle
    unit,        \* per URL: state of its monitor_website call in the pool
    fetched,     \* per URL: what get_page_content returned (None: failure)
    result,      \* per URL: content returned by monitor_website
    emails,      \* per URL: the send_email attempts of this cycle
    updated,     \* updated_websites = dict(results)
    saveOutcome, \* "none", "committed", "failed": this cycle's save
    cycleStartDb,\* rows when this cycle started
    preSaveDb,   \* rows when save_websites was entered
    intAt,       \* where KeyboardInterrupt reached the main thread
    crashAt      \* where an uncaught exception ended the main thread

vars == <<pc, tableExists, rows, conn, work, pending, websites, unit, fetched,
          result, emails, updated, saveOutcome, cycleStartDb, preSaveDb,
          intAt, crashAt>>

dbVars == <<tableExists, rows, conn, work, pending>>
poolVars == <<unit, fetched, result, emails>>
ghostVars == <<cycleStartDb, preSaveDb>>
endVars == <<intAt, crashAt>>

\* ------------------------------------------------------------ the table
Row(u, c) == [url |-> u, content |-> c]

Keys(rs) == {r.url : r \in rs}

\* url TEXT PRIMARY KEY: no two rows of a table share a url.
PrimaryKeyOk(rs) == \A r1, r2 \in rs : r1.url = r2.url => r1 = r2

\* {row[0]: row[1] for row in cursor.fetchall()}
RowsToDict(rs) ==
    [u \in Keys(rs) |-> (CHOOSE r \in rs : r.url = u).content]

\* websites.items()
Items(d) == {Row(u, d[u]) : u \in DOMAIN d}

EmptyDict == [u \in {} |-> None]

\* load_websites' SELECT on the committed table (an uncommitted transaction
\* of another connection is invisible to it).
LoadWebsites(rs) == RowsToDict(rs)

\* ------------------------------------------------------- monitor_website
FetchFailed(new) == new = None

\* Variant: every old content counts as "no old content".
FirstTimeAlways(old) == TRUE

\* Variant: only NULL counts as "no old content".
FirstTimeNullOnly(old) == old = None

\* if not old_content
FirstTime(old) == ~Truthy(old)

\* Variant: every successful fetch counts as a change.
ChangedAlways(old, new) == TRUE

\* if new_content != old_content
Changed(old, new) == new # old

\* Variant: the old content is returned after the notification.
AfterNotifyKeepsOld(old, new) == old

\* The content monitor_website returns after a change was notified.
AfterNotify(old, new) == new

\* Variant: a failed fetch returns the failure marker as the content.
AfterFetchFailureClears(old) == None

\* The content monitor_website returns when the fetch failed.
AfterFetchFailure(old) == old

\* Variant: send_email without its handler, a failed session raises.
SendEmailRaisesOnFailure(ok) == ~ok

\* Whether send_email raises to monitor_website: its except clause catches
\* every Exception of the SMTP session.
SendEmailRaises(ok) == FALSE

\* The decision of monitor_website once get_page_content has returned:
\* whether send_email is called, and the content returned for the URL.
MonitorWebsite(old, new) ==
    IF FetchFailed(new) THEN [send |-> FALSE, content |-> AfterFetchFailure(old)]
    ELSE IF FirstTime(old) THEN [send |-> FALSE, content |-> new]
    ELSE IF Changed(old, new) THEN [send |-> TRUE, content |-> AfterNotify(old, new)]
    ELSE [send |-> FALSE, content |-> old]

\* The message send_email composes and the outcome of its single SMTP
\* session; a failed session is logged and not retried.
Email(u, old, new, ok) ==
    [url |-> u, old |-> old, new |-> new,
     oldShown |-> Slice(old, EXCERPT_LEN), newShown |-> Slice(new, EXCERPT_LEN),
     sent |-> ok]

\* ------------------------------------------------------------------ Init
\* The store is either not created yet or holds any rows for the URLs,
\* with NULL, empty or non-empty content.
InitialTables ==
    {rs \in SUBSET {Row(u, c) : u \in FewUrls, c \in StoredContents} :
        PrimaryKeyOk(rs)}

Init ==
    /\ pc = "start"
    /\ tableExists \in BOOLEAN
    /\ rows \in InitialTables
    /\ (~tableExists => rows = {})
    /\ conn = "closed"
    /\ work = {}
    /\ pending = {}
    /\ websites = EmptyDict
    /\ unit = [u \in URLS |-> "none"]
    /\ fetched = [u \in URLS |-> None]
    /\ result = [u \in URLS |-> None]
    /\ emails = [u \in URLS |-> <<>>]
    /\ updated = EmptyDict
    /\ saveOutcome = "none"
    /\ cycleStartDb = rows
    /\ preSaveDb = rows
    /\ intAt = "none"
    /\ crashAt = "none"

\* ------------------------------------------------- exceptions, main thread
\* The steps of save_websites, in order.
SavePcs == {"save_init", "save_connect", "save_delete", "save_insert",
            "save_commit"}

\* The steps of a cycle that precede the call of save_websites.
PreSavePcs == {"load", "dispatch", "join", "collect"}

LivePcs == {"start", "sleep"} \cup PreSavePcs \cup SavePcs

\* Variant: save_websites without its except clause.
OnStorageErrorUncaught(p) == "crashed"

\* Where the main thread is after sqlite3.Error is raised at step p.
\* Only the DELETE, the INSERTs and the commit are inside the try block that
\* catches it; init_db() (start, load, first line of save_websites) is not,
\* and a failed connect leaves conn unbound, so that conn.close() in the
\* finally clause raises UnboundLocalError.
OnStorageError(p) ==
    IF p \in {"save_delete", "save_insert", "save_commit"}
    THEN "sleep"
    ELSE "crashed"

\* Variant: the interrupt handler persists what the cycle has so far.
OnInterruptSaves(p) ==
    IF p \in {"start", "save_connect"} THEN "crashed"
    ELSE IF p \in {"load", "dispatch", "join", "collect"} THEN "save_init"
    ELSE "exited"

\* Where the main thread is after KeyboardInterrupt is raised at step p.
\* The first init_db() precedes the try block of monitor_websites; before
\* conn is bound the finally clause of save_websites replaces the interrupt
\* by UnboundLocalError, which the handler does not catch.
OnInterrupt(p) ==
    IF p \in {"start", "save_connect"} THEN "crashed" ELSE "exited"

\* conn.close() with a transaction open discards the uncommitted changes.
CloseConn ==
    /\ conn' = "closed"
    /\ work' = {}
    /\ pending' = {}

Raise(next, p) ==
    /\ pc' = next
    /\ crashAt' = IF next = "crashed" THEN p ELSE crashAt

\* ---------------------------------------------------------------- startup
\* monitor_websites, line 153: init_db()
StartUp ==
    /\ pc = "start"
    /\ pc' = "load"
    /\ tableExists' = TRUE
    /\ UNCHANGED <<rows, conn, work, pending, websites, updated, saveOutcome>>
    /\ UNCHANGED <<poolVars, ghostVars, endVars>>

StartUpFail ==
    /\ pc = "start"
    /\ Raise(OnStorageError("start"), "start")
    /\ UNCHANGED <<dbVars, websites, updated, saveOutcome, intAt>>
    /\ UNCHANGED <<poolVars, ghostVars>>

\* ------------------------------------------------------------------- load
\* websites = load_websites(): init_db(), then SELECT on the table.
Load ==
    /\ pc = "load"
    /\ pc' = "dispatch"
    /\ tableExists' = TRUE
    /\ websites' = LoadWebsites(rows)
    /\ UNCHANGED <<rows, conn, work, pending, updated, saveOutcome>>
    /\ UNCHANGED <<poolVars, ghostVars, endVars>>

\* load_websites has no handler: the error leaves monitor_websites.
LoadFail ==
    /\ pc = "load"
    /\ Raise(OnStorageError("load"), "load")
    /\ UNCHANGED <<dbVars, websites, updated, saveOutcome, intAt>>
    /\ UNCHANGED <<poolVars, ghostVars>>

\* --------------------------------------------------------------- dispatch
\* Variant: the call reads the item when it runs, not when it is submitted,
\* and finds the last one.
OldContentLateBound(u) ==
    websites[CHOOSE v \in DOMAIN websites : \A w \in DOMAIN websites : w <= v]

\* The arguments of the call submitted for an item:
\* lambda item: monitor_website(item[0], item[1])
OldContent(u) == websites[u]

\* executor.map submits one monitor_website call per item, eagerly and in
\* the order of websites.items().
Submit(u) ==
    /\ pc = "dispatch"
    /\ u \in DOMAIN websites
    /\ unit[u] = "none"
    /\ \A v \in DOMAIN websites : v < u => unit[v] # "none"
    /\ unit' = [unit EXCEPT ![u] = "queued"]
    /\ UNCHANGED <<pc, dbVars, websites, fetched, result, emails, updated,
                   saveOutcome>>
    /\ UNCHANGED <<ghostVars, endVars>>

\* executor.map returns; leaving the with block calls shutdown(wait=True).
MapReturns ==
    /\ pc = "dispatch"
    /\ \A u \in DOMAIN websites : unit[u] # "none"
    /\ pc' = "join"
    /\ UNCHANGED <<dbVars, websites, updated, saveOutcome>>
    /\ UNCHANGED <<poolVars, ghostVars, endVars>>

\* ------------------------------------------------------------ pool workers
\* Variant: a thread that has run a call takes no further call.
BusyNeverFreed == {u \in URLS : unit[u] \in {"running", "notify", "done"}}

\* Variant: the pool starts a thread for every call.
WorkerAlwaysFree == TRUE

\* The calls that occupy a thread of the pool.
Busy == {u \in URLS : unit[u] \in {"running", "notify"}}

\* A thread of the pool is free to take a call: the pool starts a thread
\* per submitted call until it has max_workers of them, and a thread takes
\* its next call when the one it runs has returned.
WorkerFree == Cardinality(Busy) < MAX_WORKERS

\* A worker thread takes the oldest call from the queue.  Workers are not
\* stopped by the interrupt of the main thread: queued calls still run
\* while the interpreter exits.
StartUnit(u) ==
    /\ unit[u] = "queued"
    /\ \A v \in URLS : v < u => unit[v] # "queued"
    /\ WorkerFree
    /\ unit' = [unit EXCEPT ![u] = "running"]
    /\ UNCHANGED <<pc, dbVars, websites, fetched, result, emails, updated,
                   saveOutcome>>
    /\ UNCHANGED <<ghostVars, endVars>>

\* get_page_content has returned `new` (None after a RequestException);
\* monitor_website runs up to its return or up to the call of send_email.
Fetched(u, new) ==
    /\ unit[u] = "running"
    /\ fetched' = [fetched EXCEPT ![u] = new]
    /\ LET d == MonitorWebsite(OldContent(u), new)
       IN IF d.send
          THEN /\ unit' = [unit EXCEPT ![u] = "notify"]
               /\ UNCHANGED result
          ELSE /\ unit' = [unit EXCEPT ![u] = "done"]
               /\ result' = [result EXCEPT ![u] = d.content]
    /\ UNCHANGED <<pc, dbVars, websites, emails, updated, saveOutcome>>
    /\ UNCHANGED <<ghostVars, endVars>>

FetchOk(u) == \E c \in FetchContents : Fetched(u, c)

FetchFail(u) == Fetched(u, None)

\* send_email(url, old_content, new_content) with its one SMTP session,
\* then monitor_website returns.
Send(u, ok) ==
    /\ unit[u] = "notify"
    /\ emails' = [emails EXCEPT
                    ![u] = Append(@, Email(u, OldContent(u), fetched[u], ok))]
    /\ IF SendEmailRaises(ok)
       THEN /\ unit' = [unit EXCEPT ![u] = "raised"]
            /\ UNCHANGED result
       ELSE /\ unit' = [unit EXCEPT ![u] = "done"]
            /\ result' = [result EXCEPT
                 ![u] = MonitorWebsite(OldContent(u), fetched[u]).content]
    /\ UNCHANGED <<pc, dbVars, websites, fetched, updated, saveOutcome>>
    /\ UNCHANGED <<ghostVars, endVars>>

SendOk(u) == Send(u, TRUE)

\* smtplib raised (authentication, network): logged, nothing raised.
SendFail(u) == Send(u, FALSE)

\* ---------------------------------------------------------------- collect
\* Variant: the pool is left without waiting for its workers.
NoBarrier == TRUE

\* Every call submitted in this cycle has returned or raised.
AllReturned == \A u \in DOMAIN websites : unit[u] \in {"done", "raised"}

\* shutdown(wait=True) returns once every worker has finished.
Join ==
    /\ pc = "join"
    /\ AllReturned
    /\ pc' = "collect"
    /\ UNCHANGED <<dbVars, websites, updated, saveOutcome>>
    /\ UNCHANGED <<poolVars, ghostVars, endVars>>

\* updated_websites = dict(results), then save_websites is called.  The
\* iterator of executor.map re-raises an exception of a call.
Collect ==
    /\ pc = "collect"
    /\ IF \E u \in DOMAIN websites : unit[u] = "raised"
       THEN /\ Raise("crashed", "collect")
            /\ UNCHANGED <<updated, preSaveDb>>
       ELSE /\ updated' = [u \in DOMAIN websites |-> result[u]]
            /\ pc' = "save_init"
            /\ preSaveDb' = rows
            /\ UNCHANGED crashAt
    /\ UNCHANGED <<dbVars, websites, saveOutcome, cycleStartDb, intAt>>
    /\ UNCHANGED poolVars

\* ---------------------------------------------------------- save_websites
\* Variant: a connection in autocommit mode, the DELETE is committed.
AfterDeleteAutocommit(rs) == [committed |-> {}, inTxn |-> {}]

\* Variant: the rows are inserted without deleting the old ones first.
AfterDeleteKeepsRows(rs) == [committed |-> rs, inTxn |-> rs]

\* The effect of "DELETE FROM websites" on a connection in the sqlite3
\* module's default mode: a transaction is opened implicitly, the committed
\* rows stay, the rows seen inside the transaction are gone.
AfterDelete(rs) == [committed |-> rs, inTxn |-> {}]

\* Variant: a NULL content is written as the empty string.
InsertedRowNoNull(r) ==
    Row(r.url, IF r.content = None THEN Empty ELSE r.content)

\* The row the INSERT writes for one item of websites.items().
InsertedRow(r) == r

\* Variant: the rows written before the error stay in the table.
AfterRollbackKeepsPartial(committed, inTxn) == inTxn

\* What the except clause for sqlite3.Error and the finally clause leave in
\* the table: conn.close() without commit rolls the transaction back.
AfterRollback(committed, inTxn) == committed

\* save_websites, line 67: init_db(), outside the try block.
SaveInitDb ==
    /\ pc = "save_init"
    /\ pc' = "save_connect"
    /\ tableExists' = TRUE
    /\ UNCHANGED <<rows, conn, work, pending, websites, updated, saveOutcome>>
    /\ UNCHANGED <<poolVars, ghostVars, endVars>>

SaveInitDbFail ==
    /\ pc = "save_init"
    /\ Raise(OnStorageError("save_init"), "save_init")
    /\ saveOutcome' = "failed"
    /\ UNCHANGED <<dbVars, websites, updated, intAt>>
    /\ UNCHANGED <<poolVars, ghostVars>>

\* line 69: conn = sqlite3.connect(...)
SaveConnect ==
    /\ pc = "save_connect"
    /\ pc' = "save_delete"
    /\ conn' = "open"
    /\ UNCHANGED <<tableExists, rows, work, pending, websites, updated,
                   saveOutcome>>
    /\ UNCHANGED <<poolVars, ghostVars, endVars>>

SaveConnectFail ==
    /\ pc = "save_connect"
    /\ Raise(OnStorageError("save_connect"), "save_connect")
    /\ saveOutcome' = "failed"
    /\ UNCHANGED <<dbVars, websites, updated, intAt>>
    /\ UNCHANGED <<poolVars, ghostVars>>

\* line 71: cursor.execute("DELETE FROM websites")
SaveDelete ==
    /\ pc = "save_delete"
    /\ conn' = "txn"
    /\ rows' = AfterDelete(rows).committed
    /\ work' = AfterDelete(rows).inTxn
    /\ pending' = Items(updated)
    /\ pc' = IF Items(updated) = {} THEN "save_commit" ELSE "save_insert"
    /\ UNCHANGED <<tableExists, websites, updated, saveOutcome>>
    /\ UNCHANGED <<poolVars, ghostVars, endVars>>

\* sqlite3.Error inside the try block: logged, the connection is closed,
\* save_websites returns normally.
SaveError(p) ==
    /\ pc = p
    /\ Raise(OnStorageError(p), p)
    /\ rows' = AfterRollback(rows, work)
    /\ CloseConn
    /\ saveOutcome' = "failed"
    /\ UNCHANGED <<tableExists, websites, updated, intAt>>
    /\ UNCHANGED <<poolVars, ghostVars>>

SaveDeleteFail == SaveError("save_delete")

\* line 73: executemany inserts the items one after the other, in the order
\* of websites.items(); an item whose url is already in the table violates
\* the primary key.
SaveInsert(r) ==
    /\ pc = "save_insert"
    /\ r \in pending
    /\ \A q \in pending : r.url <= q.url
    /\ InsertedRow(r).url \notin Keys(work)
    /\ work' = work \cup {InsertedRow(r)}
    /\ pending' = pending \ {r}
    /\ pc' = IF pending' = {} THEN "save_commit" ELSE "save_insert"
    /\ UNCHANGED <<tableExists, rows, conn, websites, updated, saveOutcome>>
    /\ UNCHANGED <<poolVars, ghostVars, endVars>>

SaveInsertFail == SaveError("save_insert")

\* line 74: conn.commit(), then the finally clause closes the connection and
\* monitor_websites goes on to time.sleep.
SaveCommit ==
    /\ pc = "save_commit"
    /\ rows' = work
    /\ CloseConn
    /\ saveOutcome' = "committed"
    /\ pc' = "sleep"
    /\ UNCHANGED <<tableExists, websites, updated>>
    /\ UNCHANGED <<poolVars, ghostVars, endVars>>

SaveCommitFail == SaveError("save_commit")

\* ------------------------------------------------------------------ sleep
\* time.sleep(CHECK_INTERVAL) returns and the while loop starts the next
\* cycle.  The locals of the finished cycle are dead (each is assigned
\* before it is read again) and are cleared here with the cycle's records.
Wake ==
    /\ pc = "sleep"
    /\ pc' = "load"
    /\ websites' = EmptyDict
    /\ updated' = EmptyDict
    /\ unit' = [u \in URLS |-> "none"]
    /\ fetched' = [u \in URLS |-> None]
    /\ result' = [u \in URLS |-> None]
    /\ emails' = [u \in URLS |-> <<>>]
    /\ saveOutcome' = "none"
    /\ cycleStartDb' = rows
    /\ preSaveDb' = rows
    /\ UNCHANGED <<dbVars, endVars>>

\* -------------------------------------------------------------- interrupt
\* KeyboardInterrupt is raised in the main thread, wherever it is.  Inside
\* save_websites the finally clause closes the connection on the way out.
Interrupt ==
    /\ pc \in LivePcs
    /\ intAt' = pc
    /\ Raise(OnInterrupt(pc), pc)
    /\ rows' = AfterRollback(rows, work)
    /\ CloseConn
    /\ UNCHANGED <<tableExists, websites, updated, saveOutcome>>
    /\ UNCHANGED <<poolVars, ghostVars>>

\* ---------------------------------------------------------- specification
Next ==
    \/ StartUp
    \/ StartUpFail
    \/ Load
    \/ LoadFail
    \/ \E u \in URLS : Submit(u)
    \/ MapReturns
    \/ \E u \in URLS : StartUnit(u)
    \/ \E u \in URLS : FetchOk(u)
    \/ \E u \in URLS : FetchFail(u)
    \/ \E u \in URLS : SendOk(u)
    \/ \E u \in URLS : SendFail(u)
    \/ Join
    \/ Collect
    \/ SaveInitDb
    \/ SaveInitDbFail
    \/ SaveConnect
    \/ SaveConnectFail
    \/ SaveDelete
    \/ SaveDeleteFail
    \/ \E r \in pending : SaveInsert(r)
    \/ SaveInsertFail
    \/ SaveCommit
    \/ SaveCommitFail
    \/ Wake
    \/ Interrupt

Spec == Init /\ [][Next]_vars

\* ------------------------------------------------- rows added out of band
\* Another process registers a URL: it inserts a row, without content yet
\* (NULL or ''), for a URL the table does not hold.  While save_websites
\* holds its write transaction the database is locked against other writers.
OutOfBandInsert(u, c) ==
    /\ pc \in LivePcs
    /\ tableExists
    /\ conn # "txn"
    /\ u \notin Keys(rows)
    /\ rows' = rows \cup {Row(u, c)}
    /\ UNCHANGED <<pc, tableExists, conn, work, pending, websites, updated,
                   saveOutcome>>
    /\ UNCHANGED <<poolVars, ghostVars, endVars>>

NextSeed ==
    \/ Next
    \/ \E u \in FewUrls, c \in {None, Empty} : OutOfBandInsert(u, c)

\* The monitor together with a process that registers URLs.
SpecSeed == Init /\ [][NextSeed]_vars

\* ------------------------------------------- more URLs than pool workers
\* A store that holds every URL, one more than the pool has workers, each
\* with the same short baseline.
PoolTable == {Row(u, Text(0, <<1>>)) : u \in URLS}

InitPool ==
    /\ pc = "start"
    /\ tableExists = TRUE
    /\ rows \in InitialTables \cup {PoolTable}
    /\ conn = "closed"
    /\ work = {}
    /\ pending = {}
    /\ websites = EmptyDict
    /\ unit = [u \in URLS |-> "none"]
    /\ fetched = [u \in URLS |-> None]
    /\ result = [u \in URLS |-> None]
    /\ emails = [u \in URLS |-> <<>>]
    /\ updated = EmptyDict
    /\ saveOutcome = "none"
    /\ cycleStartDb = rows
    /\ preSaveDb = rows
    /\ intAt = "none"
    /\ crashAt = "none"

\* A successful fetch; its contents are explored for the small stores only,
\* for the full store every fetch fails.
FetchOkFew(u) == DOMAIN websites \subseteq FewUrls /\ FetchOk(u)

\* The steps of the main thread when the store does not fail and no
\* interrupt arrives.
MainSteps ==
    \/ StartUp
    \/ Load
    \/ \E u \in URLS : Submit(u)
    \/ MapReturns
    \/ Join
    \/ Collect
    \/ SaveInitDb
    \/ SaveConnect
    \/ SaveDelete
    \/ \E r \in pending : SaveInsert(r)
    \/ SaveCommit
    \/ Wake

\* The steps of the pool's threads; every fetch and every send returns.
WorkerSteps ==
    \/ \E u \in URLS : StartUnit(u)
    \/ \E u \in URLS : FetchOkFew(u)
    \/ \E u \in URLS : FetchFail(u)
    \/ \E u \in URLS : SendOk(u)
    \/ \E u \in URLS : SendFail(u)

NextPool == MainSteps \/ WorkerSteps

\* The main thread and the pool's threads are scheduled fairly: the main
\* thread runs when it can, and some worker that can run does.
SpecPool ==
    /\ InitPool
    /\ [][NextPool]_vars
    /\ WF_vars(MainSteps)
    /\ WF_vars(WorkerSteps)

\* ------------------------------------------------------------- type check
TypeOK ==
    /\ pc \in LivePcs \cup {"exited", "crashed"}
    /\ tableExists \in BOOLEAN
    /\ PrimaryKeyOk(rows) /\ PrimaryKeyOk(work)
    /\ conn \in {"closed", "open", "txn"}
    /\ \A u \in URLS : unit[u] \in {"none", "queued", "running", "notify", "done", "raised"}
    /\ saveOutcome \in {"none", "committed", "failed"}

\* =================================================================== claims
\* Vocabulary of the claims, stated without the operators of the model.

\* A stored content that is a baseline: neither NULL nor the empty string.
HasBaseline(c) == c # None /\ c # Empty

\* The monitor_website call of u has returned in this cycle.
Finished(u) == u \in DOMAIN websites /\ unit[u] = "done"

\* save_websites has been called in this cycle.
SaveCalled ==
    \/ pc \in SavePcs
    \/ saveOutcome # "none"
    \/ intAt \in SavePcs
    \/ crashAt \in SavePcs

\* Once save_websites is called, the mapping given to it maps u to c.
HandedToSave(u, c) == SaveCalled => (u \in DOMAIN updated /\ updated[u] = c)

StoredRows(rs, u) == {r \in rs : r.url = u}

\* e is the text c cut after its first k characters.
IsSeqPrefix(a, b) == Len(a) <= Len(b) /\ a = SubSeq(b, 1, Len(a))

IsExcerpt(e, c, k) ==
    /\ StrLen(e) = (IF StrLen(c) <= k THEN StrLen(c) ELSE k)
    /\ e.pad <= c.pad
    /\ (e.pad < c.pad => e.tail = <<>>)
    /\ (e.pad = c.pad => IsSeqPrefix(e.tail, c.tail))

\* The fetch of u succeeded with a content different from its baseline.
ChangeDetected(u) ==
    /\ Finished(u)
    /\ HasBaseline(websites[u])
    /\ fetched[u] # None
    /\ fetched[u] # websites[u]

\* What a cycle owes a URL, from its loaded content and its fetch outcome.
ExpectedContent(old, new) == IF new = None THEN old ELSE new

ExpectedEmails(old, new) ==
    IF new # None /\ HasBaseline(old) /\ new # old THEN 1 ELSE 0

AsExpected(y) ==
    Finished(y) =>
        /\ result[y] = ExpectedContent(websites[y], fetched[y])
        /\ Len(emails[y]) = ExpectedEmails(websites[y], fetched[y])

\* C1 (as claimed): a URL with a baseline whose fetch returns a different
\* content gets exactly one send attempt in the cycle, the message carries
\* the old and the new content, and the mapping given to save maps the URL
\* to the new content.
C1_OneNotificationCarriesContents ==
    \A u \in URLS :
        /\ Len(emails[u]) <= 1
        /\ ChangeDetected(u) =>
              /\ Len(emails[u]) = 1
              /\ emails[u][1].url = u
              /\ emails[u][1].oldShown = websites[u]
              /\ emails[u][1].newShown = fetched[u]
              /\ HandedToSave(u, fetched[u])

\* C1 (amended): as above, but the message carries the first 500 characters
\* of the old and of the new content.
C1_OneNotificationCarriesExcerpts ==
    \A u \in URLS :
        /\ Len(emails[u]) <= 1
        /\ ChangeDetected(u) =>
              /\ Len(emails[u]) = 1
              /\ emails[u][1].url = u
              /\ IsExcerpt(emails[u][1].oldShown, websites[u], 500)
              /\ IsExcerpt(emails[u][1].newShown, fetched[u], 500)
              /\ HandedToSave(u, fetched[u])

\* A change between two texts longer than the excerpt was notified by a send
\* that failed, and the cycle's save has committed the new content.
C1_Witness ==
    /\ pc = "sleep"
    /\ saveOutcome = "committed"
    /\ \E u \in URLS :
          /\ ChangeDetected(u)
          /\ StrLen(websites[u]) > 500
          /\ StrLen(fetched[u]) > 500
          /\ ~emails[u][1].sent
          /\ Row(u, fetched[u]) \in rows

\* C2: a URL whose stored content is NULL or empty and whose fetch succeeds
\* gets no notification; the fetched content, whatever it is, is its entry
\* in the mapping given to save and its stored content once save commits.
C2_FirstObservation ==
    \A u \in URLS :
        (Finished(u) /\ ~HasBaseline(websites[u]) /\ fetched[u] # None) =>
            /\ emails[u] = <<>>
            /\ result[u] = fetched[u]
            /\ HandedToSave(u, fetched[u])
            /\ (saveOutcome = "committed" =>
                   StoredRows(rows, u) = {Row(u, fetched[u])})

\* A NULL row and an empty row both got their first content stored.
C2_Witness ==
    /\ pc = "sleep"
    /\ saveOutcome = "committed"
    /\ \E u, v \in URLS :
          /\ Finished(u) /\ Finished(v)
          /\ websites[u] = None /\ websites[v] = Empty
          /\ HasBaseline(fetched[u]) /\ HasBaseline(fetched[v])
          /\ Row(u, fetched[u]) \in rows /\ Row(v, fetched[v]) \in rows

\* C3: a URL whose fetched content equals its stored content gets no
\* notification, and its stored row after the cycle's save (committed or
\* failed) is the one from before the cycle.
C3_Unchanged ==
    \A u \in URLS :
        (Finished(u) /\ fetched[u] # None /\ fetched[u] = websites[u]) =>
            /\ emails[u] = <<>>
            /\ result[u] = websites[u]
            /\ HandedToSave(u, websites[u])
            /\ (saveOutcome # "none" =>
                   /\ StoredRows(rows, u) = StoredRows(cycleStartDb, u)
                   /\ StoredRows(rows, u) = {Row(u, websites[u])})

\* One URL was fetched unchanged while the other changed and was saved.
C3_Witness ==
    /\ pc = "sleep"
    /\ saveOutcome = "committed"
    /\ \E u, v \in URLS :
          /\ Finished(u) /\ HasBaseline(websites[u])
          /\ fetched[u] = websites[u]
          /\ ChangeDetected(v)
          /\ rows # cycleStartDb

\* C4: a failed fetch of X keeps X's previous content (NULL and empty
\* included) in the result and in the store, sends nothing for X, does not
\* abort the cycle, and leaves every other URL's result and notifications
\* what that URL's own content and fetch outcome make them.
C4_FetchFailureIsolated ==
    \A x \in URLS :
        (Finished(x) /\ fetched[x] = None) =>
            /\ result[x] = websites[x]
            /\ emails[x] = <<>>
            /\ HandedToSave(x, websites[x])
            /\ (saveOutcome # "none" =>
                   StoredRows(rows, x) = {Row(x, websites[x])})
            /\ crashAt \notin PreSavePcs
            /\ \A y \in URLS \ {x} : AsExpected(y)

\* X's fetch failed while Y's change was notified; the save committed both.
C4_Witness ==
    /\ pc = "sleep"
    /\ saveOutcome = "committed"
    /\ \E x, y \in URLS :
          /\ Finished(x) /\ fetched[x] = None /\ HasBaseline(websites[x])
          /\ ChangeDetected(y)
          /\ Len(emails[y]) = 1
          /\ Row(y, fetched[y]) \in rows

\* C5: a failed send for a changed URL raises nothing: the call returns the
\* new content, which goes into the mapping given to save and into the
\* store when save commits; the cycle is not aborted and the other URLs are
\* processed as they would be after a successful send.
C5_SendFailureContained ==
    \A u \in URLS :
        (u \in DOMAIN websites /\ emails[u] # <<>>
            /\ ~emails[u][Len(emails[u])].sent) =>
            /\ unit[u] = "done"
            /\ result[u] = fetched[u]
            /\ HandedToSave(u, fetched[u])
            /\ (saveOutcome = "committed" =>
                   StoredRows(rows, u) = {Row(u, fetched[u])})
            /\ crashAt \notin PreSavePcs
            /\ \A y \in URLS \ {u} : AsExpected(y)

\* The send failed for one URL and succeeded for the other; both new
\* contents were committed.
C5_Witness ==
    /\ pc = "sleep"
    /\ saveOutcome = "committed"
    /\ \E u, v \in URLS :
          /\ ChangeDetected(u) /\ ~emails[u][1].sent
          /\ ChangeDetected(v) /\ emails[v][1].sent
          /\ Row(u, fetched[u]) \in rows
          /\ Row(v, fetched[v]) \in rows

\* C6 (as claimed): a storage failure during save is not fatal: the loop
\* goes on to sleep, nothing of the cycle is persisted, and the store still
\* holds what the last successful save left (what the next load returns).
C6_SaveFailureNonFatal ==
    (saveOutcome = "failed" /\ intAt = "none") =>
        /\ pc = "sleep"
        /\ conn = "closed"
        /\ rows = cycleStartDb

\* C7: whenever save has been called, whether it is still running, has
\* committed, has failed or was interrupted, a load returns the complete
\* mapping given to save or the complete contents from before the call, and
\* no URL has two rows.
C7_SaveAtomic ==
    /\ \A u \in URLS : Cardinality(StoredRows(rows, u)) <= 1
    /\ SaveCalled =>
          /\ \/ LoadWebsites(rows) = updated
             \/ LoadWebsites(rows) = LoadWebsites(preSaveDb)
          /\ (saveOutcome = "committed" => LoadWebsites(rows) = updated)
          /\ ((saveOutcome = "failed" \/ intAt \in SavePcs) => rows = preSaveDb)

\* executemany has inserted one of two rows inside the transaction: a load
\* still sees the complete old contents, which differ from the new ones.
C7_Witness ==
    /\ pc = "save_insert"
    /\ work # {} /\ pending # {}
    /\ rows # {}
    /\ LoadWebsites(rows) # updated
    /\ LoadWebsites(rows) = LoadWebsites(preSaveDb)

\* C8: a committed save of the unmodified mapping that load returned leaves
\* the table as it was, and a further load returns the same mapping, for
\* every content of the store and in every cycle.
C8_SaveLoadNoOp ==
    (saveOutcome = "committed" /\ updated = websites) =>
        /\ rows = cycleStartDb
        /\ LoadWebsites(rows) = websites

\* A mapping with a NULL and an empty content was saved back unmodified.
C8_Witness ==
    /\ pc = "sleep"
    /\ saveOutcome = "committed"
    /\ updated = websites
    /\ \E u, v \in DOMAIN websites : websites[u] = None /\ websites[v] = Empty

\* The steps of the loop and of the workers other than failures of the
\* store and the interrupt.
Progress ==
    \/ StartUp \/ Load \/ MapReturns \/ Join \/ Collect
    \/ SaveInitDb \/ SaveConnect \/ SaveDelete \/ SaveCommit \/ Wake
    \/ \E r \in pending : SaveInsert(r)
    \/ \E u \in URLS :
          Submit(u) \/ StartUnit(u) \/ FetchOk(u) \/ FetchFail(u)
            \/ SendOk(u) \/ SendFail(u)

C10_InterruptBeforeSave ==
    intAt \in PreSavePcs =>
        /\ pc = "exited"
        /\ ~SaveCalled
        /\ conn = "closed"
        /\ rows = cycleStartDb

\* Interrupted while waiting for the workers, after a change of u was
\* mailed: the table still holds u's old content.
C10_Witness ==
    /\ intAt = "join"
    /\ \E u \in URLS :
          /\ ChangeDetected(u)
          /\ emails[u][1].sent
          /\ Row(u, websites[u]) \in rows

\* The exit status of the process once the main thread has ended: exit(0)
\* in the KeyboardInterrupt handler, 1 after an uncaught exception.
ExitStatus == IF pc = "exited" THEN 0 ELSE 1

\* C11 (as claimed): once the interrupt has reached the loop (anywhere from
\* the first load on), the main thread takes no further step of a cycle and
\* is in its terminal state, the handler having logged the shutdown and
\* called exit(0).
C11_InterruptExitsCleanly ==
    (intAt \in LivePcs \ {"start"}) =>
        /\ pc = "exited"
        /\ ExitStatus = 0
        /\ conn = "closed"

\* C12: the step that commits a cycle's save leaves exactly one row for each
\* URL the cycle's load returned and no other row: the mapping saved has the
\* loaded URLs as its keys, and a row that is not among them, such as one
\* inserted out of band after the load, is gone.
C12_SavedRowsAreLoadedUrls ==
    [][(saveOutcome = "none" /\ saveOutcome' = "committed") =>
          /\ DOMAIN updated = DOMAIN websites
          /\ Keys(rows') = DOMAIN websites
          /\ \A u \in DOMAIN websites : Cardinality(StoredRows(rows', u)) = 1
      ]_vars

\* A row inserted out of band between the load and the save of a cycle that
\* loaded at least one URL is no longer in the table after the commit.
C12_Witness ==
    /\ pc = "sleep"
    /\ saveOutcome = "committed"
    /\ websites # EmptyDict
    /\ \E r \in preSaveDb : r.url \notin DOMAIN websites /\ r.url \notin Keys(rows)

\* C13 (as claimed): a stored content is NULL or empty only while the URL was
\* never fetched successfully: once a cycle has persisted a successful fetch
\* of a URL, its stored content is non-empty, a baseline for later changes.
C13_FetchedMeansBaseline ==
    \A u \in URLS :
        (saveOutcome = "committed" /\ Finished(u) /\ fetched[u] # None) =>
            \E r \in StoredRows(rows, u) : HasBaseline(r.content)

\* C14: while save_websites runs, every call dispatched in the cycle has
\* returned and no worker is running, no save of this cycle has completed
\* before, and it is the uninterrupted main thread that runs it.
C14_SaveAfterJoin ==
    (pc \in SavePcs \/ conn # "closed") =>
        /\ pc \in SavePcs
        /\ \A u \in DOMAIN websites : unit[u] = "done"
        /\ \A u \in URLS \ DOMAIN websites : unit[u] = "none"
        /\ Busy = {}
        /\ saveOutcome = "none"
        /\ intAt = "none"

\* The save is inserting rows after both calls have returned, one of them
\* having sent a notification.
C14_Witness ==
    /\ pc = "save_insert"
    /\ conn = "txn"
    /\ Cardinality(DOMAIN websites) = 2
    /\ \E u \in DOMAIN websites : ChangeDetected(u) /\ emails[u][1].sent

\* What a cycle has produced is determined by what it loaded and by each
\* URL's own fetch outcome.
Determined ==
    \A u \in DOMAIN websites :
        /\ unit[u] = "done" =>
              /\ result[u] = ExpectedContent(websites[u], fetched[u])
              /\ Len(emails[u]) = ExpectedEmails(websites[u], fetched[u])
              /\ \A i \in 1..Len(emails[u]) :
                    /\ emails[u][i].url = u
                    /\ emails[u][i].old = websites[u]
                    /\ emails[u][i].new = fetched[u]
        /\ SaveCalled =>
              /\ DOMAIN updated = DOMAIN websites
              /\ updated[u] = ExpectedContent(websites[u], fetched[u])

\* C15: after every step, in every order in which the workers run and
\* finish, the results, the notifications and the mapping given to save are
\* what the loaded mapping and each URL's own fetch outcome determine; and
\* within a cycle a URL's fetch outcome, result and notifications are
\* written only by a step of that URL's own call, which writes no other's.
C15_ResultsIndependentOfInterleaving ==
    [][/\ Determined'
       /\ \A u \in URLS :
             (/\ ~(pc = "sleep" /\ pc' = "load")
              /\ \/ result'[u] # result[u]
                 \/ emails'[u] # emails[u]
                 \/ fetched'[u] # fetched[u]) =>
                /\ unit[u] \in {"running", "notify"}
                /\ unit'[u] # unit[u]
                /\ \A v \in URLS \ {u} :
                      /\ unit'[v] = unit[v]
                      /\ result'[v] = result[v]
                      /\ emails'[v] = emails[v]
                      /\ fetched'[v] = fetched[v]
      ]_vars

\* The call submitted second has finished, with a change notified, while
\* the call submitted first is still sending its notification.
C15_Witness ==
    \E u, v \in DOMAIN websites :
        /\ u < v
        /\ unit[u] = "notify"
        /\ ChangeDetected(v)
        /\ Len(emails[v]) = 1

\* The order of the steps of the main thread within a cycle and from one
\* cycle to the next; a save that fails in DELETE or INSERT goes to sleep.
CycleOrder ==
    {<<"start", "load">>, <<"load", "dispatch">>, <<"dispatch", "join">>,
     <<"join", "collect">>, <<"collect", "save_init">>,
     <<"save_init", "save_connect">>, <<"save_connect", "save_delete">>,
     <<"save_delete", "save_insert">>, <<"save_delete", "save_commit">>,
     <<"save_insert", "save_commit">>, <<"save_commit", "sleep">>,
     <<"save_delete", "sleep">>, <<"save_insert", "sleep">>,
     <<"sleep", "load">>}

\* C16: the main thread moves through load, dispatch, collection, save and
\* sleep in that order, or ends; it reaches the sleep only with the save
\* completed (committed or failed) and its connection closed; the table
\* changes only by the commit of a save, to the mapping saved; and a load
\* returns the table as it then is, that is as the most recent committed
\* save left it.
C16_CyclesSequential ==
    [][/\ pc' # pc => (<<pc, pc'>> \in CycleOrder \/ pc' \in {"exited", "crashed"})
       /\ (pc # "sleep" /\ pc' = "sleep") =>
             (saveOutcome' \in {"committed", "failed"} /\ conn' = "closed")
       /\ rows' # rows =>
             /\ pc = "save_commit" /\ pc' = "sleep"
             /\ saveOutcome' = "committed"
             /\ LoadWebsites(rows') = updated
       /\ (pc = "load" /\ pc' = "dispatch") =>
             /\ websites' = LoadWebsites(rows)
             /\ rows = cycleStartDb
             /\ conn = "closed" /\ saveOutcome = "none"
      ]_vars

\* A cycle's save has committed a changed mapping and the loop sleeps: the
\* next load starts from it.
C16_Witness ==
    /\ pc = "sleep"
    /\ saveOutcome = "committed"
    /\ conn = "closed"
    /\ rows # cycleStartDb
    /\ LoadWebsites(rows) = updated

\* C19: a step changes the stored content of a URL from a non-empty A to a
\* different B only as the commit of a save in whose cycle the URL's fetch
\* succeeded with B # A and a notification with old content A and new
\* content B was attempted; after a failed fetch or an equal content the
\* stored content stays.
C19_NoSilentBaselineChange ==
    [][\A u \in URLS :
          \A a \in StoredRows(rows, u), b \in StoredRows(rows', u) :
             (HasBaseline(a.content) /\ b.content # a.content) =>
                /\ pc = "save_commit"
                /\ unit[u] = "done"
                /\ fetched[u] = b.content
                /\ \E i \in 1..Len(emails[u]) :
                      /\ emails[u][i].url = u
                      /\ emails[u][i].old = a.content
                      /\ emails[u][i].new = b.content
      ]_vars

\* A baseline was replaced by a different content, mailed in the same
\* cycle by a send that failed.
C19_Witness ==
    /\ pc = "sleep"
    /\ saveOutcome = "committed"
    /\ \E u \in URLS :
          /\ \E a \in StoredRows(cycleStartDb, u) :
                /\ HasBaseline(a.content)
                /\ Row(u, a.content) \notin rows
                /\ emails[u] # <<>>
                /\ emails[u][1].old = a.content
          /\ Row(u, emails[u][1].new) \in rows
          /\ ~emails[u][1].sent

\* The calls a worker thread is executing: fetching or notifying.
Executing == {u \in URLS : unit[u] = "running" \/ unit[u] = "notify"}

Queued == {u \in URLS : unit[u] = "queued"}

\* C17: without interrupt, with every fetch and send returning and threads
\* scheduled fairly, a cycle that has loaded its URLs reaches the call of
\* save with a result for every one of them, also with more URLs than the
\* pool has workers and when every fetch fails.
C17_CycleReachesSave ==
    (pc = "dispatch") ~>
        (/\ pc = "save_init"
         /\ DOMAIN updated = DOMAIN websites
         /\ \A u \in DOMAIN websites : unit[u] = "done")

\* The save is reached in a cycle over more URLs than the pool has workers
\* in which every fetch failed.
C17_Witness ==
    /\ pc = "save_init"
    /\ Cardinality(DOMAIN websites) > MAX_WORKERS
    /\ DOMAIN updated = DOMAIN websites
    /\ \A u \in DOMAIN websites : unit[u] = "done" /\ fetched[u] = None

\* C18: never more than 10 calls are executing at once; while 10 are, a
\* queued call cannot start, and it can as soon as fewer are.
C18_AtMostPoolCapacity ==
    /\ Cardinality(Executing) <= 10
    /\ (Cardinality(Executing) = 10 => \A u \in URLS : ~ENABLED StartUnit(u))
    /\ (Queued # {} /\ Cardinality(Executing) < 10) =>
          \E u \in Queued : ENABLED StartUnit(u)

\* All 10 workers are executing and an 11th call is waiting in the queue.
C18_Witness ==
    /\ Cardinality(Executing) = 10
    /\ Queued # {}

====
